---- MODULE Spec2Model ----
(***************************************************************************)
(* Signaling relay of deskviewer: the standalone SignalingServer of        *)
(* src/websocket-server.js (second definition of the class, lines          *)
(* 295-692).  One action per message handler / transport event.  The       *)
(* session directory is a JavaScript Map, modelled as a sequence in        *)
(* insertion order, because handleDisconnection depends on that order.     *)
(* SpecStream records the sequence of handled events of that relay;        *)
(* SpecEmbedded is the relay of src/main/background.ts; SpecExchange puts  *)
(* the WebRTCManager endpoints of src/unnamed/part_001 on the connections. *)
(***************************************************************************)
EXTENDS Integers, Sequences, FiniteSets, TLC

\* ---------------------------------------------------------------- bounds
NumConns == 3
NumSessionIds == 2
NumClientIds == 2
NumData == 2
MaxSteps == 4
StreamSteps == 3
ExchangeSteps == 13
MaxDepartures == 1

\* ------------------------------------------------------------ value sets
\* a field that is absent from a message (undefined in JavaScript)
Undefined == 0
NoError == ""

Conns == 1..NumConns
SessionIds == 1..NumSessionIds
\* the empty clientId '' that the host endpoint sends: falsy in JavaScript, as
\* an absent clientId is, and a Map key like any other
NoClientId == NumClientIds + 1
\* a clientId field of an inbound envelope: a proper id, or the falsy one
ClientIds == (1..NumClientIds) \cup {NoClientId}
Payloads == 1..NumData

MouseTypes == {"mouse_move", "mouse_click", "mouse_down", "mouse_up"}
KeyTypes == {"key_down", "key_up"}
InputTypes == MouseTypes \cup KeyTypes
\* the message types the relay forwards, and those that travel client to host
RelayTypes == {"offer", "answer", "ice_candidate", "screen_resolution"} \cup InputTypes
ToHostTypes == {"answer", "ice_candidate"} \cup InputTypes

\* JavaScript truthiness of a clientId (`if (clientId)`)
Truthy(v) == v \notin {NoClientId, Undefined}

VARIABLES
  sessions,   \* this.sessions: Map sessionId -> {id, host, clients}, in insertion order
  conn,       \* transport state of every connection: "OPEN", "ERRORED", "CLOSED"
  lastOp,     \* the event the relay handled last
  sent,       \* the ws.send calls that handler made, in order
  before,     \* this.sessions as it was when that handler was entered
  steps,      \* number of events handled
  recording,  \* whether the handled events are kept in trace
  trace,      \* the events handled before lastOp, each with its ws.send calls, in order
  endpoint    \* the WebRTCManager behind every connection, <<>> when none is modelled

vars == <<sessions, conn, lastOp, sent, before, steps, recording, trace, endpoint>>

\* ------------------------------------------------------------ Map helpers
RemoveAt(s, i) == SubSeq(s, 1, i - 1) \o SubSeq(s, i + 1, Len(s))

\* index of the entry with key k in a Map (sequence of records with field id), 0 if none
IndexOf(m, k) ==
  IF \E i \in 1..Len(m) : m[i].id = k
  THEN CHOOSE i \in 1..Len(m) : m[i].id = k
  ELSE 0

MapHas(m, k) == IndexOf(m, k) # 0
MapGet(m, k) == m[IndexOf(m, k)]

\* a set that throws the other entries away
ClientsSetAlone(clients, k, ws) == <<[id |-> k, ws |-> ws]>>

\* Map.prototype.set on the client directory: overwrite in place, else append
ClientsSet(clients, k, ws) ==
  IF MapHas(clients, k)
  THEN [clients EXCEPT ![IndexOf(clients, k)].ws = ws]
  ELSE Append(clients, [id |-> k, ws |-> ws])

\* Map.prototype.delete on the client directory
ClientsDelete(clients, k) ==
  IF MapHas(clients, k) THEN RemoveAt(clients, IndexOf(clients, k)) ELSE clients

\* first entry of a client directory whose connection is ws, 0 if none
FirstClientOf(clients, ws) ==
  IF \E j \in 1..Len(clients) : clients[j].ws = ws
  THEN CHOOSE j \in 1..Len(clients) :
         /\ clients[j].ws = ws
         /\ \A h \in 1..(j - 1) : clients[h].ws # ws
  ELSE 0

\* ------------------------------------------------------------- messages
Msg(type, sid, cid, payload, err) ==
  [type |-> type, sessionId |-> sid, clientId |-> cid, payload |-> payload, error |-> err]

\* ws.send(JSON.stringify(m)) on connection `to`; sent lists the calls.  (The
\* ws library drops, without throwing, what is sent on a socket that is no
\* longer open: conn tells which of the calls reach an endpoint.)
WsSend(to, m) == <<[to |-> to, msg |-> m]>>

\* clients.forEach(clientWs => clientWs.send(m)), in Map order
RECURSIVE Broadcast(_, _)
Broadcast(clients, m) ==
  IF clients = <<>> THEN <<>>
  ELSE WsSend(Head(clients).ws, m) \o Broadcast(Tail(clients), m)

\* an inbound event: the envelope fields handleMessage destructures, the
\* connection it arrived on and the transport state of that connection
Op(type, ws, sid, cid, payload) ==
  [type |-> type, ws |-> ws, sessionId |-> sid, clientId |-> cid, payload |-> payload,
   was |-> IF ws \in Conns THEN conn[ws] ELSE "OPEN"]

\* ---------------------------------------------------------------- Init
Init ==
  /\ sessions = <<>>
  /\ conn = [c \in Conns |-> "OPEN"]
  /\ lastOp = Op("none", Undefined, Undefined, Undefined, Undefined)
  /\ sent = <<>>
  /\ before = <<>>
  /\ steps = 0
  /\ recording = FALSE
  /\ trace = <<>>
  /\ endpoint = <<>>

\* the number of events explored: MaxSteps, or StreamSteps when they are
\* recorded, or ExchangeSteps when they come from modelled endpoints
StepBound ==
  IF endpoint # <<>> THEN ExchangeSteps
  ELSE IF recording THEN StreamSteps ELSE MaxSteps

\* ws.on('message'): only an open connection delivers messages
Receives(ws) == conn[ws] = "OPEN" /\ steps < StepBound

\* the handler that ran before this one is complete: its event and its sends
\* join the record, behind everything handled earlier
Recorded ==
  /\ recording' = recording
  /\ trace' = IF recording THEN Append(trace, [op |-> lastOp, sent |-> sent]) ELSE trace
  /\ endpoint' = endpoint

\* A handler that changes the directory or a transport state counts one step.
Handled == before' = sessions /\ steps' = steps + 1 /\ Recorded

\* a relay that puts what it forwards in front of what is already queued
HandledLastLifo ==
  /\ before' = sessions
  /\ steps' = IF recording THEN steps + 1 ELSE MaxSteps
  /\ recording' = recording
  /\ trace' = IF recording THEN <<[op |-> lastOp, sent |-> sent]>> \o trace ELSE trace
  /\ endpoint' = endpoint

\* A handler that leaves sessions and conn unchanged commutes with every
\* other event, so it is explored as the last event of a run only, unless
\* the sequence of events is recorded.
HandledLast ==
  /\ before' = sessions
  /\ steps' = IF recording THEN steps + 1 ELSE MaxSteps
  /\ Recorded

\* ------------------------------------------------------- createSession
\* createSession without the sessions.has guard: Map.set replaces an open session
CreateSessionNoGuard(ws, sid) ==
  /\ Receives(ws)
  /\ lastOp' = Op("create_session", ws, sid, Undefined, Undefined)
  /\ Handled
  /\ sessions' = IF MapHas(sessions, sid)
                 THEN [sessions EXCEPT ![IndexOf(sessions, sid)] =
                         [id |-> sid, host |-> ws, clients |-> <<>>]]
                 ELSE Append(sessions, [id |-> sid, host |-> ws, clients |-> <<>>])
  /\ sent' = WsSend(ws, Msg("session_created", sid, Undefined, Undefined, NoError))
  /\ UNCHANGED conn

\* createSession whose rejection also tells the host of the open session
CreateSessionRejectTellsHost(ws, sid) ==
  /\ Receives(ws)
  /\ lastOp' = Op("create_session", ws, sid, Undefined, Undefined)
  /\ Handled
  /\ IF MapHas(sessions, sid)
     THEN /\ sent' = WsSend(ws, Msg("session_error", Undefined, Undefined, Undefined, "Session already exists"))
                     \o WsSend(MapGet(sessions, sid).host,
                               Msg("session_error", Undefined, Undefined, Undefined, "Session already exists"))
          /\ UNCHANGED sessions
     ELSE /\ sessions' = Append(sessions, [id |-> sid, host |-> ws, clients |-> <<>>])
          /\ sent' = WsSend(ws, Msg("session_created", sid, Undefined, Undefined, NoError))
  /\ UNCHANGED conn

CreateSession(ws, sid) ==
  /\ Receives(ws)
  /\ lastOp' = Op("create_session", ws, sid, Undefined, Undefined)
  /\ Handled
  /\ IF MapHas(sessions, sid)
     THEN /\ sent' = WsSend(ws, Msg("session_error", Undefined, Undefined, Undefined, "Session already exists"))
          /\ UNCHANGED sessions
     ELSE /\ sessions' = Append(sessions, [id |-> sid, host |-> ws, clients |-> <<>>])
          /\ sent' = WsSend(ws, Msg("session_created", sid, Undefined, Undefined, NoError))
  /\ UNCHANGED conn

\* --------------------------------------------------------- joinSession
\* joinSession that opens the session when it is missing, the joiner as host
JoinSessionAutoCreate(ws, sid, cid) ==
  /\ Receives(ws)
  /\ lastOp' = Op("join_session", ws, sid, cid, Undefined)
  /\ Handled
  /\ IF ~MapHas(sessions, sid)
     THEN /\ sessions' = Append(sessions, [id |-> sid, host |-> ws, clients |-> <<>>])
          /\ sent' = WsSend(ws, Msg("session_error", Undefined, Undefined, Undefined, "Session not found"))
     ELSE LET i == IndexOf(sessions, sid)
              session == sessions[i]
          IN /\ sessions' = [sessions EXCEPT ![i].clients = ClientsSet(@, cid, ws)]
             /\ sent' = WsSend(session.host, Msg("client_joined", sid, cid, Undefined, NoError))
                        \o WsSend(ws, Msg("session_joined", sid, cid, Undefined, NoError))
  /\ UNCHANGED conn

\* joinSession that registers the joiner and tells the host, but not the joiner
JoinSessionNoReply(ws, sid, cid) ==
  /\ Receives(ws)
  /\ lastOp' = Op("join_session", ws, sid, cid, Undefined)
  /\ Handled
  /\ IF ~MapHas(sessions, sid)
     THEN /\ sent' = WsSend(ws, Msg("session_error", Undefined, Undefined, Undefined, "Session not found"))
          /\ UNCHANGED sessions
     ELSE LET i == IndexOf(sessions, sid)
              session == sessions[i]
          IN /\ sessions' = [sessions EXCEPT ![i].clients = ClientsSet(@, cid, ws)]
             /\ sent' = WsSend(session.host, Msg("client_joined", sid, cid, Undefined, NoError))
  /\ UNCHANGED conn

JoinSession(ws, sid, cid) ==
  /\ Receives(ws)
  /\ lastOp' = Op("join_session", ws, sid, cid, Undefined)
  /\ Handled
  /\ IF ~MapHas(sessions, sid)
     THEN /\ sent' = WsSend(ws, Msg("session_error", Undefined, Undefined, Undefined, "Session not found"))
          /\ UNCHANGED sessions
     ELSE LET i == IndexOf(sessions, sid)
              session == sessions[i]
          IN /\ sessions' = [sessions EXCEPT ![i].clients = ClientsSet(@, cid, ws)]
             /\ sent' = WsSend(session.host, Msg("client_joined", sid, cid, Undefined, NoError))
                        \o WsSend(ws, Msg("session_joined", sid, cid, Undefined, NoError))
  /\ UNCHANGED conn

\* -------------------------------------------------------- forwardOffer
\* forwardOffer that falls back to every client when the target is not registered
ForwardOfferFallback(ws, sid, cid, data) ==
  /\ Receives(ws)
  /\ lastOp' = Op("offer", ws, sid, cid, data)
  /\ HandledLast
  /\ sent' = IF ~MapHas(sessions, sid) THEN <<>>
             ELSE LET session == MapGet(sessions, sid) IN
                  IF MapHas(session.clients, cid)
                  THEN WsSend(MapGet(session.clients, cid).ws,
                              Msg("offer", sid, Undefined, data, NoError))
                  ELSE Broadcast(session.clients, Msg("offer", sid, Undefined, data, NoError))
  /\ UNCHANGED <<sessions, conn>>

ForwardOffer(ws, sid, cid, data) ==
  /\ Receives(ws)
  /\ lastOp' = Op("offer", ws, sid, cid, data)
  /\ HandledLast
  /\ sent' = IF ~MapHas(sessions, sid) THEN <<>>
             ELSE LET session == MapGet(sessions, sid) IN
                  IF MapHas(session.clients, cid)
                  THEN WsSend(MapGet(session.clients, cid).ws,
                              Msg("offer", sid, Undefined, data, NoError))
                  ELSE <<>>
  /\ UNCHANGED <<sessions, conn>>

\* ------------------------------------------------------- forwardAnswer
\* forwardAnswer that forwards like the client branch of forwardIceCandidate,
\* without the clientId
ForwardAnswerUntagged(ws, sid, cid, data) ==
  /\ Receives(ws)
  /\ lastOp' = Op("answer", ws, sid, cid, data)
  /\ HandledLast
  /\ sent' = IF ~MapHas(sessions, sid) THEN <<>>
             ELSE WsSend(MapGet(sessions, sid).host,
                         Msg("answer", sid, Undefined, data, NoError))
  /\ UNCHANGED <<sessions, conn>>

ForwardAnswer(ws, sid, cid, data) ==
  /\ Receives(ws)
  /\ lastOp' = Op("answer", ws, sid, cid, data)
  /\ HandledLast
  /\ sent' = IF ~MapHas(sessions, sid) THEN <<>>
             ELSE WsSend(MapGet(sessions, sid).host,
                         Msg("answer", sid, cid, data, NoError))
  /\ UNCHANGED <<sessions, conn>>

\* ------------------------------------------------- forwardIceCandidate
\* forwardIceCandidate that broadcasts a host candidate whose clientId is not
\* registered
ForwardIceCandidateFallback(ws, sid, cid, data) ==
  /\ Receives(ws)
  /\ lastOp' = Op("ice_candidate", ws, sid, cid, data)
  /\ HandledLast
  /\ sent' = IF ~MapHas(sessions, sid) THEN <<>>
             ELSE LET session == MapGet(sessions, sid)
                      m == Msg("ice_candidate", sid, Undefined, data, NoError)
                  IN IF ws = session.host
                     THEN IF Truthy(cid) /\ MapHas(session.clients, cid)
                          THEN WsSend(MapGet(session.clients, cid).ws, m)
                          ELSE Broadcast(session.clients, m)
                     ELSE WsSend(session.host, m)
  /\ UNCHANGED <<sessions, conn>>

ForwardIceCandidate(ws, sid, cid, data) ==
  /\ Receives(ws)
  /\ lastOp' = Op("ice_candidate", ws, sid, cid, data)
  /\ HandledLast
  /\ sent' = IF ~MapHas(sessions, sid) THEN <<>>
             ELSE LET session == MapGet(sessions, sid)
                      m == Msg("ice_candidate", sid, Undefined, data, NoError)
                  IN IF ws = session.host
                     THEN IF Truthy(cid)
                          THEN IF MapHas(session.clients, cid)
                               THEN WsSend(MapGet(session.clients, cid).ws, m)
                               ELSE <<>>
                          ELSE Broadcast(session.clients, m)
                     ELSE WsSend(session.host, m)
  /\ UNCHANGED <<sessions, conn>>

\* -------------------------------------------------------- leaveSession
\* leaveSession that reports a missing session to the sender
LeaveSessionReportsMissing(ws, sid, cid) ==
  /\ Receives(ws)
  /\ lastOp' = Op("leave_session", ws, sid, cid, Undefined)
  /\ Handled
  /\ IF ~MapHas(sessions, sid)
     THEN /\ sent' = WsSend(ws, Msg("session_error", Undefined, Undefined, Undefined, "Session not found"))
          /\ UNCHANGED sessions
     ELSE LET i == IndexOf(sessions, sid) IN
          /\ sessions' = [sessions EXCEPT ![i].clients = ClientsDelete(@, cid)]
          /\ sent' = WsSend(sessions[i].host, Msg("client_left", sid, cid, Undefined, NoError))
  /\ UNCHANGED conn

\* leaveSession that deletes the session when its last client has left
LeaveSessionDropsEmpty(ws, sid, cid) ==
  /\ Receives(ws)
  /\ lastOp' = Op("leave_session", ws, sid, cid, Undefined)
  /\ Handled
  /\ IF ~MapHas(sessions, sid)
     THEN /\ sent' = <<>>
          /\ UNCHANGED sessions
     ELSE LET i == IndexOf(sessions, sid) IN
          /\ sessions' = IF ClientsDelete(sessions[i].clients, cid) = <<>>
                         THEN RemoveAt(sessions, i)
                         ELSE [sessions EXCEPT ![i].clients = ClientsDelete(@, cid)]
          /\ sent' = WsSend(sessions[i].host, Msg("client_left", sid, cid, Undefined, NoError))
  /\ UNCHANGED conn

\* leaveSession that tells the host but keeps the entry
LeaveSessionKeepsEntry(ws, sid, cid) ==
  /\ Receives(ws)
  /\ lastOp' = Op("leave_session", ws, sid, cid, Undefined)
  /\ Handled
  /\ IF ~MapHas(sessions, sid)
     THEN sent' = <<>>
     ELSE sent' = WsSend(MapGet(sessions, sid).host, Msg("client_left", sid, cid, Undefined, NoError))
  /\ UNCHANGED <<sessions, conn>>

LeaveSession(ws, sid, cid) ==
  /\ Receives(ws)
  /\ lastOp' = Op("leave_session", ws, sid, cid, Undefined)
  /\ Handled
  /\ IF ~MapHas(sessions, sid)
     THEN /\ sent' = <<>>
          /\ UNCHANGED sessions
     ELSE LET i == IndexOf(sessions, sid) IN
          /\ sessions' = [sessions EXCEPT ![i].clients = ClientsDelete(@, cid)]
          /\ sent' = WsSend(sessions[i].host, Msg("client_left", sid, cid, Undefined, NoError))
  /\ UNCHANGED conn

\* --------------------------------- forwardMouseEvent / forwardKeyboardEvent
\* forwarding that also echoes the event to the clients of the session
ForwardToHostAndClients(ws, type, sid, cid, data) ==
  /\ Receives(ws)
  /\ lastOp' = Op(type, ws, sid, cid, data)
  /\ HandledLast
  /\ sent' = IF ~MapHas(sessions, sid) THEN <<>>
             ELSE LET session == MapGet(sessions, sid) IN
                  IF ws # session.host
                  THEN WsSend(session.host, Msg(type, sid, cid, data, NoError))
                       \o Broadcast(session.clients, Msg(type, sid, cid, data, NoError))
                  ELSE <<>>
  /\ UNCHANGED <<sessions, conn>>

ForwardToHost(ws, type, sid, cid, data) ==
  /\ Receives(ws)
  /\ lastOp' = Op(type, ws, sid, cid, data)
  /\ HandledLast
  /\ sent' = IF ~MapHas(sessions, sid) THEN <<>>
             ELSE LET session == MapGet(sessions, sid) IN
                  IF ws # session.host
                  THEN WsSend(session.host, Msg(type, sid, cid, data, NoError))
                  ELSE <<>>
  /\ UNCHANGED <<sessions, conn>>

ForwardMouseEvent(ws, type, sid, cid, mouseData) ==
  type \in MouseTypes /\ ForwardToHost(ws, type, sid, cid, mouseData)

ForwardKeyboardEvent(ws, type, sid, cid, keyboardData) ==
  type \in KeyTypes /\ ForwardToHost(ws, type, sid, cid, keyboardData)

\* --------------------------------------------- forwardScreenResolution
\* forwardScreenResolution without the sender test: any connection broadcasts
ForwardScreenResolutionFromAnyone(ws, sid, cid, resolution) ==
  /\ Receives(ws)
  /\ lastOp' = Op("screen_resolution", ws, sid, cid, resolution)
  /\ HandledLast
  /\ sent' = IF ~MapHas(sessions, sid) THEN <<>>
             ELSE Broadcast(MapGet(sessions, sid).clients,
                            Msg("screen_resolution", sid, Undefined, resolution, NoError))
  /\ UNCHANGED <<sessions, conn>>

ForwardScreenResolution(ws, sid, cid, resolution) ==
  /\ Receives(ws)
  /\ lastOp' = Op("screen_resolution", ws, sid, cid, resolution)
  /\ HandledLast
  /\ sent' = IF ~MapHas(sessions, sid) THEN <<>>
             ELSE LET session == MapGet(sessions, sid) IN
                  IF ws = session.host
                  THEN Broadcast(session.clients,
                                 Msg("screen_resolution", sid, Undefined, resolution, NoError))
                  ELSE <<>>
  /\ UNCHANGED <<sessions, conn>>

\* ------------------------- handleMessage default branch / JSON.parse throws
\* a default branch that answers the sender with a session_error
UnknownTypeReplies(ws) ==
  /\ Receives(ws)
  /\ lastOp' = Op("unknown", ws, Undefined, Undefined, Undefined)
  /\ HandledLast
  /\ sent' = WsSend(ws, Msg("session_error", Undefined, Undefined, Undefined, "Unknown message type"))
  /\ UNCHANGED <<sessions, conn>>

UnknownType(ws) ==
  /\ Receives(ws)
  /\ lastOp' = Op("unknown", ws, Undefined, Undefined, Undefined)
  /\ HandledLast
  /\ sent' = <<>>
  /\ UNCHANGED <<sessions, conn>>

\* a catch block that reports the failure to the sender
ParseErrorReplies(ws) ==
  /\ Receives(ws)
  /\ lastOp' = Op("malformed", ws, Undefined, Undefined, Undefined)
  /\ HandledLast
  /\ sent' = WsSend(ws, Msg("session_error", Undefined, Undefined, Undefined, "Invalid message"))
  /\ UNCHANGED <<sessions, conn>>

ParseError(ws) ==
  /\ Receives(ws)
  /\ lastOp' = Op("malformed", ws, Undefined, Undefined, Undefined)
  /\ HandledLast
  /\ sent' = <<>>
  /\ UNCHANGED <<sessions, conn>>

\* -------------------------------------------------- handleDisconnection
\* a disconnect handler that reports the connection to the host of every session
DisconnectFromTellsEveryHost(ss, ws, i) ==
  [sessions |-> ss,
   sent |-> [k \in 1..Len(ss) |->
               [to |-> ss[k].host,
                msg |-> Msg("client_disconnected", ss[k].id, Undefined, Undefined, NoError)]]]

\* the for-of loop over this.sessions from entry i on
RECURSIVE DisconnectFrom(_, _, _)
DisconnectFrom(ss, ws, i) ==
  IF i > Len(ss) THEN [sessions |-> ss, sent |-> <<>>]
  ELSE LET session == ss[i] IN
       IF session.host = ws
       THEN [sessions |-> RemoveAt(ss, i),
             sent |-> Broadcast(session.clients,
                                Msg("host_disconnected", session.id, Undefined, Undefined, NoError))]
       ELSE LET j == FirstClientOf(session.clients, ws) IN
            IF j = 0 THEN DisconnectFrom(ss, ws, i + 1)
            ELSE LET rest == DisconnectFrom([ss EXCEPT ![i].clients = RemoveAt(@, j)], ws, i + 1)
                 IN [sessions |-> rest.sessions,
                     sent |-> WsSend(session.host,
                                     Msg("client_disconnected", session.id, session.clients[j].id,
                                         Undefined, NoError))
                              \o rest.sent]

HandleDisconnection(ss, ws) == DisconnectFrom(ss, ws, 1)

\* ws.on('error'): the socket is closing, the 'close' event is still to come
OnError(ws) ==
  /\ conn[ws] = "OPEN"
  /\ steps < StepBound
  /\ conn' = [conn EXCEPT ![ws] = "ERRORED"]
  /\ LET r == HandleDisconnection(sessions, ws) IN
       /\ sessions' = r.sessions
       /\ sent' = r.sent
  /\ lastOp' = Op("error", ws, Undefined, Undefined, Undefined)
  /\ Handled

\* ws.on('close')
OnClose(ws) ==
  /\ conn[ws] \in {"OPEN", "ERRORED"}
  /\ steps < StepBound
  /\ conn' = [conn EXCEPT ![ws] = "CLOSED"]
  /\ LET r == HandleDisconnection(sessions, ws) IN
       /\ sessions' = r.sessions
       /\ sent' = r.sent
  /\ lastOp' = Op("close", ws, Undefined, Undefined, Undefined)
  /\ Handled

\* the connections an event can arrive from
Senders == {ws \in Conns : Receives(ws)}
Closing == {ws \in Conns : conn[ws] # "CLOSED" /\ steps < StepBound}

Next ==
  \/ \E ws \in Senders, sid \in SessionIds : CreateSession(ws, sid)
  \/ \E ws \in Senders, sid \in SessionIds, cid \in ClientIds : JoinSession(ws, sid, cid)
  \/ \E ws \in Senders, sid \in SessionIds, cid \in ClientIds, d \in Payloads : ForwardOffer(ws, sid, cid, d)
  \/ \E ws \in Senders, sid \in SessionIds, cid \in ClientIds, d \in Payloads : ForwardAnswer(ws, sid, cid, d)
  \/ \E ws \in Senders, sid \in SessionIds, cid \in ClientIds, d \in Payloads : ForwardIceCandidate(ws, sid, cid, d)
  \/ \E ws \in Senders, sid \in SessionIds, cid \in ClientIds : LeaveSession(ws, sid, cid)
  \/ \E ws \in Senders, t \in MouseTypes, sid \in SessionIds, cid \in ClientIds, d \in Payloads :
       ForwardMouseEvent(ws, t, sid, cid, d)
  \/ \E ws \in Senders, sid \in SessionIds, cid \in ClientIds, d \in Payloads :
       ForwardScreenResolution(ws, sid, cid, d)
  \/ \E ws \in Senders, t \in KeyTypes, sid \in SessionIds, cid \in ClientIds, d \in Payloads :
       ForwardKeyboardEvent(ws, t, sid, cid, d)
  \/ \E ws \in Senders : UnknownType(ws)
  \/ \E ws \in Senders : ParseError(ws)
  \/ \E ws \in Closing : OnError(ws)
  \/ \E ws \in Closing : OnClose(ws)

Spec == Init /\ [][Next]_vars

\* ------------------------------------------------- recorded event streams
\* Everything handled so far, the last event included.
History == Append(trace, [op |-> lastOp, sent |-> sent])

\* A connection numbers the relay messages it sends 1, 2, ...; the transport
\* hands them to ws.on('message') in that order, so the n-th relay message
\* handled for a connection carries stamp n.
Stamp(ws) ==
  1 + Cardinality({k \in 1..Len(History) :
                     History[k].op.ws = ws /\ History[k].op.type \in RelayTypes})

\* The relay with one session open and two clients joined (connection 1 has
\* sent create_session{1}, connection 2 join_session{1, 1} and connection 3
\* join_session{1, 2}); from here on every event is recorded.
InitStream ==
  /\ sessions = <<[id |-> 1, host |-> 1,
                   clients |-> <<[id |-> 1, ws |-> 2], [id |-> 2, ws |-> 3]>>]>>
  /\ before = <<[id |-> 1, host |-> 1, clients |-> <<[id |-> 1, ws |-> 2]>>]>>
  /\ conn = [c \in Conns |-> "OPEN"]
  /\ lastOp = Op("join_session", 3, 1, 2, Undefined)
  /\ sent = WsSend(1, Msg("client_joined", 1, 2, Undefined, NoError))
            \o WsSend(3, Msg("session_joined", 1, 2, Undefined, NoError))
  /\ steps = 0
  /\ recording = TRUE
  /\ trace = <<>>
  /\ endpoint = <<>>

\* the ids used in recorded streams
StreamSessionIds == {1}
StreamClientIds == 1..NumClientIds

NextStream ==
  \/ \E ws \in Senders, sid \in StreamSessionIds : CreateSession(ws, sid)
  \/ \E ws \in Senders, sid \in StreamSessionIds, cid \in StreamClientIds : JoinSession(ws, sid, cid)
  \/ \E ws \in Senders, sid \in StreamSessionIds, cid \in StreamClientIds :
       ForwardOffer(ws, sid, cid, Stamp(ws))
  \/ \E ws \in Senders, sid \in StreamSessionIds, cid \in StreamClientIds :
       ForwardAnswer(ws, sid, cid, Stamp(ws))
  \/ \E ws \in Senders, sid \in StreamSessionIds, cid \in StreamClientIds :
       ForwardIceCandidate(ws, sid, cid, Stamp(ws))
  \/ \E ws \in Senders, sid \in StreamSessionIds, cid \in StreamClientIds : LeaveSession(ws, sid, cid)
  \/ \E ws \in Senders, sid \in StreamSessionIds, cid \in StreamClientIds :
       ForwardMouseEvent(ws, "mouse_move", sid, cid, Stamp(ws))
  \/ \E ws \in Senders, sid \in StreamSessionIds, cid \in StreamClientIds :
       ForwardScreenResolution(ws, sid, cid, Stamp(ws))
  \/ \E ws \in Senders, sid \in StreamSessionIds, cid \in StreamClientIds :
       ForwardKeyboardEvent(ws, "key_down", sid, cid, Stamp(ws))
  \/ \E ws \in Senders : UnknownType(ws)
  \/ \E ws \in Senders : ParseError(ws)
  \/ \E ws \in Closing : OnError(ws)
  \/ \E ws \in Closing : OnClose(ws)

SpecStream == InitStream /\ [][NextStream]_vars

\* =============================================== the embedded relay
\* The relay inside the Electron main process (src/main/background.ts): the
\* same directory, its own handlers, and no 'error' listener on a socket.
SignalingTypes == {"offer", "answer", "ice_candidate"}
ControlTypes == InputTypes \cup {"screen_resolution"}

HandleCreateSession(ws, sid) ==
  /\ Receives(ws)
  /\ lastOp' = Op("create_session", ws, sid, Undefined, Undefined)
  /\ Handled
  /\ IF MapHas(sessions, sid)
     THEN /\ sent' = WsSend(ws, Msg("session_error", sid, Undefined, Undefined, "Session already exists"))
          /\ UNCHANGED sessions
     ELSE /\ sessions' = Append(sessions, [id |-> sid, host |-> ws, clients |-> <<>>])
          /\ sent' = WsSend(ws, Msg("session_created", sid, Undefined, Undefined, NoError))
  /\ UNCHANGED conn

HandleJoinSession(ws, sid, cid) ==
  /\ Receives(ws)
  /\ lastOp' = Op("join_session", ws, sid, cid, Undefined)
  /\ Handled
  /\ IF ~MapHas(sessions, sid)
     THEN /\ sent' = WsSend(ws, Msg("session_error", sid, Undefined, Undefined, "Session not found"))
          /\ UNCHANGED sessions
     ELSE LET i == IndexOf(sessions, sid) IN
          /\ sessions' = [sessions EXCEPT ![i].clients = ClientsSet(@, cid, ws)]
          /\ sent' = WsSend(ws, Msg("session_joined", sid, cid, Undefined, NoError))
                     \o WsSend(sessions[i].host, Msg("client_joined", sid, cid, Undefined, NoError))
  /\ UNCHANGED conn

HandleLeaveSession(ws, sid, cid) ==
  /\ Receives(ws)
  /\ lastOp' = Op("leave_session", ws, sid, cid, Undefined)
  /\ Handled
  /\ IF ~MapHas(sessions, sid)
     THEN /\ sent' = <<>>
          /\ UNCHANGED sessions
     ELSE LET i == IndexOf(sessions, sid) IN
          IF sessions[i].host = ws
          THEN /\ sent' = Broadcast(sessions[i].clients,
                                    Msg("host_disconnected", sid, Undefined, Undefined, NoError))
               /\ sessions' = RemoveAt(sessions, i)
          ELSE /\ sessions' = [sessions EXCEPT ![i].clients = ClientsDelete(@, cid)]
               /\ sent' = WsSend(sessions[i].host, Msg("client_left", sid, cid, Undefined, NoError))
  /\ UNCHANGED conn

\* offer, answer, ice_candidate: the whole message is forwarded
HandleSignalingMessage(ws, type, sid, cid, data) ==
  /\ type \in SignalingTypes
  /\ Receives(ws)
  /\ lastOp' = Op(type, ws, sid, cid, data)
  /\ HandledLast
  /\ sent' = IF ~MapHas(sessions, sid) THEN <<>>
             ELSE LET session == MapGet(sessions, sid) IN
                  IF session.host = ws
                  THEN IF MapHas(session.clients, cid)
                       THEN WsSend(MapGet(session.clients, cid).ws, Msg(type, sid, cid, data, NoError))
                       ELSE <<>>
                  ELSE WsSend(session.host, Msg(type, sid, cid, data, NoError))
  /\ UNCHANGED <<sessions, conn>>

\* mouse_*, key_*, screen_resolution: host to every client, client to host
HandleControlMessage(ws, type, sid, cid, data) ==
  /\ type \in ControlTypes
  /\ Receives(ws)
  /\ lastOp' = Op(type, ws, sid, cid, data)
  /\ HandledLast
  /\ sent' = IF ~MapHas(sessions, sid) THEN <<>>
             ELSE LET session == MapGet(sessions, sid) IN
                  IF session.host = ws
                  THEN Broadcast(session.clients, Msg(type, sid, cid, data, NoError))
                  ELSE WsSend(session.host, Msg(type, sid, cid, data, NoError))
  /\ UNCHANGED <<sessions, conn>>

\* the for-of loop of cleanupDisconnectedClient from entry i on
RECURSIVE CleanupFrom(_, _, _)
CleanupFrom(ss, ws, i) ==
  IF i > Len(ss) THEN [sessions |-> ss, sent |-> <<>>]
  ELSE LET session == ss[i] IN
       IF session.host = ws
       THEN [sessions |-> RemoveAt(ss, i),
             sent |-> Broadcast(session.clients,
                                Msg("host_disconnected", session.id, Undefined, Undefined, NoError))]
       ELSE LET j == FirstClientOf(session.clients, ws) IN
            IF j = 0 THEN CleanupFrom(ss, ws, i + 1)
            ELSE LET rest == CleanupFrom([ss EXCEPT ![i].clients = RemoveAt(@, j)], ws, i + 1)
                 IN [sessions |-> rest.sessions,
                     sent |-> WsSend(session.host,
                                     Msg("client_left", session.id, session.clients[j].id,
                                         Undefined, NoError))
                              \o rest.sent]

CleanupDisconnectedClient(ss, ws) == CleanupFrom(ss, ws, 1)

\* ws.on('close') of the embedded relay
EmbeddedOnClose(ws) ==
  /\ conn[ws] = "OPEN"
  /\ steps < StepBound
  /\ conn' = [conn EXCEPT ![ws] = "CLOSED"]
  /\ LET r == CleanupDisconnectedClient(sessions, ws) IN
       /\ sessions' = r.sessions
       /\ sent' = r.sent
  /\ lastOp' = Op("close", ws, Undefined, Undefined, Undefined)
  /\ Handled

NextEmbedded ==
  \/ \E ws \in Senders, sid \in SessionIds : HandleCreateSession(ws, sid)
  \/ \E ws \in Senders, sid \in SessionIds, cid \in ClientIds : HandleJoinSession(ws, sid, cid)
  \/ \E ws \in Senders, sid \in SessionIds, cid \in ClientIds : HandleLeaveSession(ws, sid, cid)
  \/ \E ws \in Senders, t \in SignalingTypes, sid \in SessionIds, cid \in ClientIds, d \in Payloads :
       HandleSignalingMessage(ws, t, sid, cid, d)
  \/ \E ws \in Senders, t \in ControlTypes, sid \in SessionIds, cid \in ClientIds, d \in Payloads :
       HandleControlMessage(ws, t, sid, cid, d)
  \/ \E ws \in Senders : UnknownType(ws)
  \/ \E ws \in Senders : ParseError(ws)
  \/ \E ws \in Closing : EmbeddedOnClose(ws)

SpecEmbedded == Init /\ [][NextEmbedded]_vars

\* ======================================================= observations
\* how many of the last handler's sends went to connection c with type t
CountSent(c, t) ==
  Cardinality({i \in 1..Len(sent) : sent[i].to = c /\ sent[i].msg.type = t})

\* how many of them went to c with type t for session sid and client id cid
CountSentFor(c, t, sid, cid) ==
  Cardinality({i \in 1..Len(sent) :
                 /\ sent[i].to = c
                 /\ sent[i].msg.type = t
                 /\ sent[i].msg.sessionId = sid
                 /\ sent[i].msg.clientId = cid})

\* the connections registered in a client directory
ClientConns(clients) == {clients[j].ws : j \in 1..Len(clients)}

\* the entries of a client directory as a set
Entries(clients) == {clients[j] : j \in 1..Len(clients)}

CreateRejected == lastOp.type = "create_session" /\ MapHas(before, lastOp.sessionId)
CreateAccepted == lastOp.type = "create_session" /\ ~MapHas(before, lastOp.sessionId)
JoinRejected == lastOp.type = "join_session" /\ ~MapHas(before, lastOp.sessionId)
JoinAccepted == lastOp.type = "join_session" /\ MapHas(before, lastOp.sessionId)

\* ============================================================= claims
\* C1: create_session for an id that is not open installs the session with
\* the sender as host and an empty client directory and answers
\* session_created; while the host of an open session has not closed the
\* session stays in the directory with that host, and every create_session
\* for its id, from any connection, is answered with session_error and
\* installs nothing.
C1_CreateOnceWhileHostOpen ==
  /\ CreateAccepted =>
       /\ sessions = Append(before, [id |-> lastOp.sessionId, host |-> lastOp.ws, clients |-> <<>>])
       /\ sent = <<[to |-> lastOp.ws,
                    msg |-> Msg("session_created", lastOp.sessionId, Undefined, Undefined, NoError)]>>
  /\ CreateRejected =>
       /\ CountSent(lastOp.ws, "session_error") = 1
       /\ \A i \in 1..Len(sent) : sent[i].msg.type # "session_created"
       /\ MapHas(sessions, lastOp.sessionId)
       /\ MapGet(sessions, lastOp.sessionId).host = MapGet(before, lastOp.sessionId).host
  /\ \A i \in 1..Len(before) :
       conn[before[i].host] = "OPEN" =>
         /\ MapHas(sessions, before[i].id)
         /\ MapGet(sessions, before[i].id).host = before[i].host

\* a create_session of another connection is rejected while the host is open
C1_Witness ==
  /\ CreateRejected
  /\ lastOp.ws # MapGet(before, lastOp.sessionId).host
  /\ conn[MapGet(before, lastOp.sessionId).host] = "OPEN"

\* C2: a rejected create_session leaves the whole directory as it was (same
\* host, same client directory for every session) and sends exactly one
\* message, a session_error, to the requesting connection.
C2_RejectedCreateChangesNothing ==
  CreateRejected =>
    /\ sessions = before
    /\ Len(sent) = 1
    /\ sent[1].to = lastOp.ws
    /\ sent[1].msg.type = "session_error"

\* a create_session is rejected for a session that has a client joined
C2_Witness ==
  /\ CreateRejected
  /\ MapGet(before, lastOp.sessionId).clients # <<>>
  /\ lastOp.ws \notin ClientConns(MapGet(before, lastOp.sessionId).clients) \cup
                      {MapGet(before, lastOp.sessionId).host}

\* C3: join_session for an id that is not open leaves the directory as it
\* was (no session created, no client directory changed) and sends exactly
\* one message, a session_error to the requester: no host gets client_joined.
C3_JoinUnknownSessionFails ==
  JoinRejected =>
    /\ sessions = before
    /\ Len(sent) = 1
    /\ sent[1].to = lastOp.ws
    /\ sent[1].msg.type = "session_error"

\* a join is rejected while another session, with a client, is open
C3_Witness ==
  /\ JoinRejected
  /\ \E i \in 1..Len(before) : before[i].clients # <<>> /\ before[i].host # lastOp.ws

\* C4: a successful join_session{S, K} from c makes the client directory of S
\* map K to c, sends exactly one client_joined{S, K} to the host of S and
\* exactly one session_joined{S, K} to c and nothing else, and leaves every
\* other session and every other entry of S as it was.
C4_JoinRegistersAndNotifies ==
  JoinAccepted =>
    LET S == lastOp.sessionId
        K == lastOp.clientId
        i == IndexOf(before, S)
    IN /\ Len(sessions) = Len(before)
       /\ \A h \in 1..Len(before) : h # i => sessions[h] = before[h]
       /\ sessions[i].id = S
       /\ sessions[i].host = before[i].host
       /\ {e \in Entries(sessions[i].clients) : e.id = K} = {[id |-> K, ws |-> lastOp.ws]}
       /\ {e \in Entries(sessions[i].clients) : e.id # K}
            = {e \in Entries(before[i].clients) : e.id # K}
       /\ Len(sent) = 2
       /\ CountSentFor(before[i].host, "client_joined", S, K) = 1
       /\ CountSentFor(lastOp.ws, "session_joined", S, K) = 1

\* a join into a session that already has another client, a second session open
C4_Witness ==
  /\ JoinAccepted
  /\ Len(before) = 2
  /\ \E e \in Entries(MapGet(before, lastOp.sessionId).clients) :
       e.id # lastOp.clientId /\ e.ws # lastOp.ws
\* the ids under which connection c is registered in a client directory
IdsOf(clients, c) == {clients[j].id : j \in {h \in 1..Len(clients) : clients[h].ws = c}}

Disconnected == lastOp.type \in {"error", "close"}
\* the disconnect handler runs for the first time for that connection
FirstDisconnect == Disconnected /\ lastOp.was = "OPEN"
\* the 'close' event that follows an 'error' event of the same connection
SecondDisconnect == lastOp.type = "close" /\ lastOp.was = "ERRORED"

\* C5: when c2 joins a session under a client id K that another connection
\* c1 holds (neither of them the host), the directory then holds c2 alone
\* under K, and c1 is no longer reached by a message addressed to K nor by a
\* host broadcast of that session.
C5_EvictedConnectionGetsNoRelay ==
  JoinAccepted =>
    LET S == lastOp.sessionId
        K == lastOp.clientId
        old == MapGet(before, S).clients
        new == MapGet(sessions, S).clients
        host == MapGet(before, S).host
    IN (MapHas(old, K) /\ MapGet(old, K).ws \notin {lastOp.ws, host} /\ lastOp.ws # host) =>
         LET c1 == MapGet(old, K).ws
             broadcast == Broadcast(new, Msg("screen_resolution", S, Undefined, Undefined, NoError))
         IN /\ \A e \in Entries(new) : e.id = K => e.ws = lastOp.ws
            /\ \A i \in 1..Len(broadcast) : broadcast[i].to # c1

\* C6: once the host connection of a session has closed the session is out
\* of the directory, so a join_session for its id is not accepted and a
\* create_session for its id is not rejected.
C6_ClosedHostSessionGone ==
  /\ lastOp.type = "close" =>
       \A i \in 1..Len(before) : before[i].host = lastOp.ws => ~MapHas(sessions, before[i].id)
  /\ JoinAccepted => conn[MapGet(before, lastOp.sessionId).host] # "CLOSED"
  /\ CreateRejected => conn[MapGet(before, lastOp.sessionId).host] # "CLOSED"

\* C7: when the host of a session disconnects, every other connection that
\* is a client of that session is sent exactly one host_disconnected{sessionId}; the second
\* run of the disconnect handler ('close' after 'error') sends nothing and
\* changes nothing.
C7_HostDisconnectNotifiesOnce ==
  /\ FirstDisconnect =>
       \A i \in 1..Len(before) :
         before[i].host = lastOp.ws =>
           \A c \in ClientConns(before[i].clients) \ {lastOp.ws} :
             CountSentFor(c, "host_disconnected", before[i].id, Undefined) = 1
  /\ SecondDisconnect => sent = <<>> /\ sessions = before

\* C8: when a connection that is a client of a session (and not its host)
\* disconnects, the host of that session is sent exactly one
\* client_disconnected{sessionId, clientId} for it, the session stays open
\* with the entries of the other connections unchanged, and nothing else is sent.
C8_ClientDisconnectNotifiesHost ==
  FirstDisconnect =>
    /\ \A i \in 1..Len(before) :
         (lastOp.ws \in ClientConns(before[i].clients) /\ before[i].host # lastOp.ws) =>
           /\ MapHas(sessions, before[i].id)
           /\ MapGet(sessions, before[i].id).host = before[i].host
           /\ {e \in Entries(MapGet(sessions, before[i].id).clients) : e.ws # lastOp.ws}
                = {e \in Entries(before[i].clients) : e.ws # lastOp.ws}
           /\ Cardinality({k \in 1..Len(sent) :
                             /\ sent[k].to = before[i].host
                             /\ sent[k].msg.type = "client_disconnected"
                             /\ sent[k].msg.sessionId = before[i].id
                             /\ sent[k].msg.clientId \in IdsOf(before[i].clients, lastOp.ws)}) = 1
    /\ (\A i \in 1..Len(before) : before[i].host # lastOp.ws) =>
         \A k \in 1..Len(sent) : sent[k].msg.type = "client_disconnected"

\* C9: an ice_candidate of the host with a falsy clientId is sent exactly
\* once to every connection in the client directory of the session and
\* never to the host connection.
C9_HostIceBroadcastNotToHost ==
  (/\ lastOp.type = "ice_candidate"
   /\ MapHas(before, lastOp.sessionId)
   /\ MapGet(before, lastOp.sessionId).host = lastOp.ws
   /\ ~Truthy(lastOp.clientId)) =>
     /\ \A c \in ClientConns(MapGet(before, lastOp.sessionId).clients) :
          CountSent(c, "ice_candidate") = 1
     /\ CountSent(lastOp.ws, "ice_candidate") = 0

\* C10: an offer for an open session whose clientId is not registered sends
\* nothing and changes nothing; an offer is put on the wire only by the
\* handler of that very offer, to the connection registered under its
\* clientId, so a later join cannot release it.
C10_OfferToUnknownClientDropped ==
  /\ (/\ lastOp.type = "offer"
      /\ MapHas(before, lastOp.sessionId)
      /\ ~MapHas(MapGet(before, lastOp.sessionId).clients, lastOp.clientId)) =>
        sent = <<>> /\ sessions = before
  /\ \A i \in 1..Len(sent) :
       sent[i].msg.type = "offer" =>
         /\ lastOp.type = "offer"
         /\ sent[i].msg.payload = lastOp.payload
         /\ MapHas(before, lastOp.sessionId)
         /\ MapHas(MapGet(before, lastOp.sessionId).clients, lastOp.clientId)
         /\ sent[i].to = MapGet(MapGet(before, lastOp.sessionId).clients, lastOp.clientId).ws

\* the host offers to an id nobody holds while another client is joined
C10_Witness ==
  /\ lastOp.type = "offer"
  /\ MapHas(before, lastOp.sessionId)
  /\ MapGet(before, lastOp.sessionId).host = lastOp.ws
  /\ MapGet(before, lastOp.sessionId).clients # <<>>
  /\ ~MapHas(MapGet(before, lastOp.sessionId).clients, lastOp.clientId)
  /\ Truthy(lastOp.clientId)

\* ---------------------------------------------------- relayed messages
\* the last event addressed an open session
ForOpenSession == lastOp.sessionId \in SessionIds /\ MapHas(before, lastOp.sessionId)

\* the sends of the last handler that went to connection c with type t
SentTo(c, t) == {i \in 1..Len(sent) : sent[i].to = c /\ sent[i].msg.type = t}

\* C11: a mouse_* or key_* event sent by a connection that is a client of
\* session S is delivered to the host of S exactly once, with the same type,
\* sessionId, clientId and payload.
C11_InputEventReachesHostUnaltered ==
  (/\ lastOp.type \in InputTypes
   /\ ForOpenSession
   /\ lastOp.ws \in ClientConns(MapGet(before, lastOp.sessionId).clients)) =>
     LET host == MapGet(before, lastOp.sessionId).host IN
     /\ Cardinality(SentTo(host, lastOp.type)) = 1
     /\ \A i \in SentTo(host, lastOp.type) :
          sent[i].msg = Msg(lastOp.type, lastOp.sessionId, lastOp.clientId, lastOp.payload, NoError)

\* the client directory and the host of the session the last event addressed
ClientsBefore == MapGet(before, lastOp.sessionId).clients
HostBefore == MapGet(before, lastOp.sessionId).host

\* C12: with session S open and c1 joined, an offer{clientId: c1, data} of
\* the host is sent exactly once, to the connection of c1 only, with that
\* data; the answer{clientId: c1, data} of that connection is sent exactly
\* once, to the host only, tagged clientId c1 and with that data.
C12_OfferAnswerRoundTrip ==
  /\ (/\ lastOp.type = "offer"
      /\ ForOpenSession
      /\ lastOp.ws = HostBefore
      /\ MapHas(ClientsBefore, lastOp.clientId)) =>
        /\ Len(sent) = 1
        /\ sent[1].to = MapGet(ClientsBefore, lastOp.clientId).ws
        /\ sent[1].msg.type = "offer"
        /\ sent[1].msg.sessionId = lastOp.sessionId
        /\ sent[1].msg.payload = lastOp.payload
  /\ (/\ lastOp.type = "answer"
      /\ ForOpenSession
      /\ MapHas(ClientsBefore, lastOp.clientId)
      /\ lastOp.ws = MapGet(ClientsBefore, lastOp.clientId).ws) =>
        /\ Len(sent) = 1
        /\ sent[1].to = HostBefore
        /\ sent[1].msg = Msg("answer", lastOp.sessionId, lastOp.clientId, lastOp.payload, NoError)

\* the host offers to c1 while a second client is joined on another connection
C12_Witness ==
  /\ lastOp.type = "offer"
  /\ ForOpenSession
  /\ lastOp.ws = HostBefore
  /\ MapHas(ClientsBefore, lastOp.clientId)
  /\ MapGet(ClientsBefore, lastOp.clientId).ws # HostBefore
  /\ \E e \in Entries(ClientsBefore) :
       /\ e.id # lastOp.clientId
       /\ e.ws \notin {HostBefore, MapGet(ClientsBefore, lastOp.clientId).ws}
  /\ sent # <<>>

\* C13: in every reachable state every session of the directory has one host
\* connection, and that connection's transport has not closed.
C13_EverySessionHasLiveHost ==
  \A i \in 1..Len(sessions) :
    /\ sessions[i].host \in Conns
    /\ conn[sessions[i].host] # "CLOSED"

\* the places of a directory that reference connection c: <<i, 0>> for the
\* host of session i, <<i, j>> for entry j of its client directory
RefsTo(ss, c) ==
  {<<i, 0>> : i \in {h \in 1..Len(ss) : ss[h].host = c}}
  \cup UNION {{<<i, j>> : j \in {k \in 1..Len(ss[i].clients) : ss[i].clients[k].ws = c}} :
              i \in 1..Len(ss)}

\* C14: in every reachable state each connection is referenced by at most
\* one session, as its host or as a client under one id, never both.
C14_OneRolePerConnection ==
  \A c \in Conns : Cardinality(RefsTo(sessions, c)) <= 1

\* C15: after the transport of connection c has closed and its disconnect has
\* been handled no session references c: c is not a host and not the value
\* of any client entry.
C15_DisconnectRemovesEveryReference ==
  lastOp.type = "close" => RefsTo(sessions, lastOp.ws) = {}

\* C16: leave_session{S, K} removes K from S and sends client_left{S, K} to
\* the host when S is open and K is registered in S; when S is not open or K
\* is not registered it changes nothing and sends nothing.
C16_LeaveOfUnknownClientIsNoOp ==
  lastOp.type = "leave_session" =>
    IF ForOpenSession /\ MapHas(ClientsBefore, lastOp.clientId)
    THEN /\ sessions = [before EXCEPT ![IndexOf(before, lastOp.sessionId)].clients =
                          ClientsDelete(@, lastOp.clientId)]
         /\ sent = WsSend(HostBefore,
                          Msg("client_left", lastOp.sessionId, lastOp.clientId, Undefined, NoError))
    ELSE sessions = before /\ sent = <<>>

\* the last event was the host of session ss[i] departing: its transport
\* failed or closed, or it sent leave_session for that session
HostDeparted(ss, i) ==
  /\ lastOp.ws = ss[i].host
  /\ \/ Disconnected
     \/ lastOp.type = "leave_session" /\ lastOp.sessionId = ss[i].id

\* C17: only the departure of its host removes a session: every other event
\* (join, leave or close of a client, relayed message, rejected or accepted
\* request, malformed or unknown message) leaves every open session in the
\* directory with the same host.
C17_OnlyHostDepartureRemovesSession ==
  \A i \in 1..Len(before) :
    ~HostDeparted(before, i) =>
      /\ MapHas(sessions, before[i].id)
      /\ MapGet(sessions, before[i].id).host = before[i].host

\* the last client of a session leaves it while a second session is open
C17_Witness ==
  /\ lastOp.type = "leave_session"
  /\ ForOpenSession
  /\ Len(before) = 2
  /\ lastOp.ws # HostBefore
  /\ Len(ClientsBefore) = 1
  /\ ClientsBefore[1] = [id |-> lastOp.clientId, ws |-> lastOp.ws]
  /\ MapGet(sessions, lastOp.sessionId).clients = <<>>

\* C18: when the host connection of session S sends leave_session for S, S
\* is removed from the directory (so that a later join_session for S finds
\* no session) and every client connection of S is sent host_disconnected{S},
\* as on a host disconnect.
C18_HostLeaveRemovesSession ==
  (/\ lastOp.type = "leave_session"
   /\ ForOpenSession
   /\ lastOp.ws = HostBefore) =>
     /\ ~MapHas(sessions, lastOp.sessionId)
     /\ \A c \in ClientConns(ClientsBefore) :
          CountSentFor(c, "host_disconnected", lastOp.sessionId, Undefined) = 1

\* a forwarded clientId field equal to the original one (a falsy original
\* may come out absent)
SameClientId(orig, fwd) == IF Truthy(orig) THEN fwd = orig ELSE ~Truthy(fwd)

\* C19: every forwarded message carries the sessionId of the original, and
\* every message forwarded from a client to the host (answer, ice_candidate,
\* mouse_*, key_*) carries the clientId of the original.
C19_ForwardKeepsSessionAndClientId ==
  lastOp.type \in RelayTypes =>
    \A i \in 1..Len(sent) :
      /\ sent[i].msg.type = lastOp.type
      /\ sent[i].msg.sessionId = lastOp.sessionId
      /\ (lastOp.type \in ToHostTypes /\ lastOp.ws # HostBefore /\ sent[i].to = HostBefore) =>
           SameClientId(lastOp.clientId, sent[i].msg.clientId)

\* C20: every answer sent to the host of session S is tagged with a client
\* id that the client directory of S maps to the connection that sent it.
C20_AnswerTaggedWithSendersId ==
  \A i \in 1..Len(sent) :
    sent[i].msg.type = "answer" =>
      /\ MapHas(ClientsBefore, sent[i].msg.clientId)
      /\ MapGet(ClientsBefore, sent[i].msg.clientId).ws = lastOp.ws

\* C21: an offer is relayed from the host only: every offer sent to a
\* connection came in on the host connection of its session, and an offer
\* that came in on another connection is sent to nobody.
C21_OfferOnlyFromHost ==
  /\ \A i \in 1..Len(sent) : sent[i].msg.type = "offer" => lastOp.ws = HostBefore
  /\ (lastOp.type = "offer" /\ ForOpenSession /\ lastOp.ws # HostBefore) => sent = <<>>

\* C22: a mouse_* or key_* message of the host connection of a session is
\* sent to nobody; one of a non-host connection causes exactly one send,
\* addressed to the host of that session, and no send for any entry of the
\* client directory.
C22_InputEventDirection ==
  (lastOp.type \in InputTypes /\ ForOpenSession) =>
    IF lastOp.ws = HostBefore
    THEN sent = <<>>
    ELSE /\ Len(sent) = 1
         /\ sent[1].to = HostBefore
         /\ sent[1].msg.type = lastOp.type

\* a client sends a key event to a session that has a second client
C22_Witness ==
  /\ lastOp.type \in KeyTypes
  /\ ForOpenSession
  /\ lastOp.ws # HostBefore
  /\ lastOp.ws \in ClientConns(ClientsBefore)
  /\ ClientConns(ClientsBefore) \ {lastOp.ws, HostBefore} # {}
  /\ sent # <<>>

\* the entries of a client directory whose connection is c
EntriesOf(clients, c) == {j \in 1..Len(clients) : clients[j].ws = c}

C24_IceCandidateRouting ==
  (lastOp.type = "ice_candidate" /\ ForOpenSession) =>
    IF lastOp.ws = HostBefore
    THEN Truthy(lastOp.clientId) =>
           IF MapHas(ClientsBefore, lastOp.clientId)
           THEN /\ Len(sent) = 1
                /\ sent[1].to = MapGet(ClientsBefore, lastOp.clientId).ws
                /\ sent[1].msg.type = "ice_candidate"
                /\ sent[1].msg.payload = lastOp.payload
           ELSE sent = <<>>
    ELSE /\ Len(sent) = 1
         /\ sent[1].to = HostBefore
         /\ sent[1].msg.type = "ice_candidate"
         /\ sent[1].msg.payload = lastOp.payload

\* the host sends a candidate for an id nobody holds while clients are joined
C24_Witness ==
  /\ lastOp.type = "ice_candidate"
  /\ ForOpenSession
  /\ lastOp.ws = HostBefore
  /\ Truthy(lastOp.clientId)
  /\ ~MapHas(ClientsBefore, lastOp.clientId)
  /\ ClientConns(ClientsBefore) \ {HostBefore} # {}

\* C26: a message whose type is not a known one is ignored: nothing is sent
\* (no reply, no session_error, nothing forwarded) and the directory is as
\* it was.
C26_UnknownTypeIgnored ==
  lastOp.type = "unknown" => sent = <<>> /\ sessions = before

\* a joined client sends a message of an unknown type
C26_Witness ==
  /\ lastOp.type = "unknown"
  /\ \E i \in 1..Len(before) :
       lastOp.ws \in ClientConns(before[i].clients) /\ lastOp.ws # before[i].host

\* C27: a relay message or a leave_session that names a session id which is
\* not open is dropped: nothing is sent to anyone (no session_error either)
\* and the directory is as it was.
C27_ClosedSessionRelayDropped ==
  (/\ lastOp.type \in RelayTypes \cup {"leave_session"}
   /\ ~ForOpenSession) =>
     sent = <<>> /\ sessions = before

\* the host of an open session with a client relays to an id that is not open
C27_Witness ==
  /\ lastOp.type \in RelayTypes
  /\ ~ForOpenSession
  /\ \E i \in 1..Len(before) : before[i].host = lastOp.ws /\ before[i].clients # <<>>

\* C28: handling the close of a connection that no session references (it
\* never created or joined one, or was rejected) changes no session and
\* sends nothing.
C28_CloseOfStrangerIsNoOp ==
  (Disconnected /\ RefsTo(before, lastOp.ws) = {}) =>
     sent = <<>> /\ sessions = before

\* a connection that no session references closes while a session with a
\* client is open
C28_Witness ==
  /\ lastOp.type = "close"
  /\ lastOp.was = "OPEN"
  /\ RefsTo(before, lastOp.ws) = {}
  /\ \E i \in 1..Len(before) : before[i].clients # <<>>

\* C25: an unparseable payload received on connection c is dropped: no
\* session or client entry changes, nothing is sent, c stays open with every
\* reference the directory holds to it, and c can deliver further messages,
\* which meet the directory as it was.
C25_MalformedPayloadDropped ==
  lastOp.type = "malformed" =>
    /\ sessions = before
    /\ sent = <<>>
    /\ conn[lastOp.ws] = "OPEN"
    /\ RefsTo(sessions, lastOp.ws) = RefsTo(before, lastOp.ws)
    /\ steps < StepBound => lastOp.ws \in Senders

\* a client whose earlier payload was unparseable has a mouse event, sent
\* after it, forwarded to the host
C25_Witness ==
  /\ lastOp.type = "mouse_move"
  /\ sent # <<>>
  /\ \E k \in 1..Len(trace) :
       trace[k].op.type = "malformed" /\ trace[k].op.ws = lastOp.ws
  /\ \E k \in 1..Len(trace) :
       trace[k].op.type = "key_down" /\ trace[k].op.ws # lastOp.ws /\ trace[k].sent # <<>>

\* the ws.send calls of one recorded event, tagged with the connection whose
\* message caused them
Tagged(rec) ==
  [i \in 1..Len(rec.sent) |->
     [from |-> rec.op.ws, type |-> rec.op.type, to |-> rec.sent[i].to, msg |-> rec.sent[i].msg]]

\* all ws.send calls so far, in the order they were made
RECURSIVE Wire(_)
Wire(h) == IF h = <<>> THEN <<>> ELSE Tagged(Head(h)) \o Wire(Tail(h))

\* the relayed messages among them
Relayed(w) == {i \in 1..Len(w) : w[i].type \in RelayTypes}

C30_EmbeddedCloseIsNotLeave ==
  /\ lastOp.type = "close" =>
       /\ \A i \in 1..Len(sent) : sent[i].msg.type # "client_left"
       /\ \A i \in 1..Len(before) :
            (lastOp.ws \in ClientConns(before[i].clients) /\ before[i].host # lastOp.ws) =>
              CountSent(before[i].host, "client_disconnected") >= 1
  /\ lastOp.type = "leave_session" =>
       \A i \in 1..Len(sent) : sent[i].msg.type # "client_disconnected"

\* C31: in the embedded relay a mouse_* or key_* message of the host
\* connection of a session is forwarded to nobody.
C31_EmbeddedDropsHostInput ==
  (lastOp.type \in InputTypes /\ ForOpenSession /\ lastOp.ws = HostBefore) =>
    sent = <<>>

\* C32: in the embedded relay an ice_candidate of the host with an empty
\* clientId is sent to every connection of the client directory of the session.
C32_EmbeddedBroadcastsHostIce ==
  (/\ lastOp.type = "ice_candidate"
   /\ ForOpenSession
   /\ lastOp.ws = HostBefore
   /\ ~Truthy(lastOp.clientId)) =>
     \A c \in ClientConns(ClientsBefore) : CountSent(c, "ice_candidate") >= 1

\* C39: a mouse_* or key_* event is sent to the host of session S only when
\* it came in on a connection that is registered in the client directory of S.
C39_InputOnlyFromRegisteredClient ==
  \A i \in 1..Len(sent) :
    sent[i].msg.type \in InputTypes =>
      /\ ForOpenSession
      /\ lastOp.ws \in ClientConns(ClientsBefore)

\* C40: an entry K -> c leaves the client directory of session S only
\* through a leave_session or a disconnect of c itself, the departure of the
\* host of S, or a join under K; in particular not through a leave_session
\* that another connection sent.
C40_EntryLeavesOnlyByOwner ==
  \A i \in 1..Len(before) :
    \A e \in Entries(before[i].clients) :
      (/\ lastOp.ws # e.ws
       /\ ~HostDeparted(before, i)
       /\ ~(lastOp.type = "join_session" /\ lastOp.sessionId = before[i].id
            /\ lastOp.clientId = e.id)) =>
        /\ MapHas(sessions, before[i].id)
        /\ e \in Entries(MapGet(sessions, before[i].id).clients)

\* the connection that was sent session_joined before the recording began
\* (connection 3 is sent its session_joined in the first record)
JoinedBeforeRecording == {2}

\* the records, before the last one, in which c is sent session_joined{sid};
\* 0 stands for a session_joined sent before the recording began
JoinReceipts(c, sid) ==
  {k \in 1..(Len(History) - 1) :
     \E i \in 1..Len(History[k].sent) :
       /\ History[k].sent[i].to = c
       /\ History[k].sent[i].msg.type = "session_joined"
       /\ History[k].sent[i].msg.sessionId = sid}
  \cup (IF c \in JoinedBeforeRecording /\ sid \in StreamSessionIds THEN {0} ELSE {})

\* c has been sent session_joined{sid} and, between that and the last event,
\* has neither sent leave_session{sid} nor closed, nor been told that the
\* host of sid is gone
StillJoined(c, sid) ==
  \E k \in JoinReceipts(c, sid) :
    \A j \in (k + 1)..(Len(History) - 1) :
      /\ ~(/\ History[j].op.ws = c
           /\ \/ History[j].op.type \in {"close", "error"}
              \/ History[j].op.type = "leave_session" /\ History[j].op.sessionId = sid)
      /\ ~\E i \in 1..Len(History[j].sent) :
            /\ History[j].sent[i].to = c
            /\ History[j].sent[i].msg.type = "host_disconnected"
            /\ History[j].sent[i].msg.sessionId = sid

\* C35: when the host of session S disconnects, every connection that was
\* sent session_joined for S and has neither sent leave_session nor closed
\* since is sent host_disconnected{S}.
C35_JoinedConnectionToldOfHostLoss ==
  \A sid \in StreamSessionIds :
    (/\ Disconnected
     /\ MapHas(before, sid)
     /\ MapGet(before, sid).host = lastOp.ws) =>
      \A c \in Conns \ {lastOp.ws} :
        StillJoined(c, sid) =>
          \E i \in 1..Len(sent) :
            /\ sent[i].to = c
            /\ sent[i].msg.type = "host_disconnected"
            /\ sent[i].msg.sessionId = sid

\* the last event was a join_session of c2 that took client id k of session
\* sid over from c1
TookOver(c1, c2, sid, k) ==
  /\ c1 # c2
  /\ lastOp.type = "join_session" /\ lastOp.ws = c2
  /\ lastOp.sessionId = sid /\ lastOp.clientId = k
  /\ MapHas(before, sid)
  /\ [id |-> k, ws |-> c1] \in Entries(MapGet(before, sid).clients)

\* C36: after client id K of session S has been taken over by c2, the close
\* of the evicted connection c1 neither removes the entry K -> c2 nor sends
\* anything to the host of S.
C36_EvictedCloseLeavesSuccessor ==
  [][\A c1, c2 \in Conns : \A sid \in SessionIds : \A k \in ClientIds :
       (/\ TookOver(c1, c2, sid, k)
        /\ lastOp'.ws = c1
        /\ lastOp'.type \in {"close", "error"}) =>
         /\ MapHas(sessions', sid)
         /\ [id |-> k, ws |-> c2] \in Entries(MapGet(sessions', sid).clients)
         /\ \A i \in 1..Len(sent') : sent'[i].to # MapGet(sessions, sid).host]_vars

\* ================================== the relay with WebRTCManager endpoints
\* Every connection is a WebRTCManager (src/unnamed/part_001) that talks to
\* the standalone relay: connection 1 as a host, the last one as a client,
\* the one in between as either, all for the same session id.  What an
\* endpoint has written to its socket is kept in put, what it has read from
\* it in got; the relay handles the messages of a connection in the order
\* they were written, and an endpoint reads what the relay sent it in the
\* order of the ws.send calls.

\* this.clientId of a host: 'host'
HostId == NumClientIds + 2

\* the ways to hand out the roles: the connections that are started as hosts
HostChoices == {1..h : h \in 1..(NumConns - 1)}

\* the session id the user hands to startHost and startClient
ExchangeSessionId == 1

\* the transport close: the relay sees it after the data written before it
CloseMark == Msg("close", Undefined, Undefined, Undefined, NoError)

\* a WebRTCManager before startHost / startClient
Manager(isHost, clientId) ==
  [isHost |-> isHost, sessionId |-> ExchangeSessionId, clientId |-> clientId,
   ws |-> "none", promise |-> "none", put |-> <<>>, got |-> <<>>]

InitExchange ==
  /\ sessions = <<>>
  /\ conn = [c \in Conns |-> "OPEN"]
  /\ lastOp = Op("none", Undefined, Undefined, Undefined, Undefined)
  /\ sent = <<>>
  /\ before = <<>>
  /\ steps = 0
  /\ recording = TRUE
  /\ trace = <<>>
  /\ \E hosts \in HostChoices :
       endpoint = [c \in Conns |->
                     IF c \in hosts THEN Manager(TRUE, HostId) ELSE Manager(FALSE, c - 1)]

RelayUnchanged == UNCHANGED <<sessions, conn, lastOp, sent, before, steps, recording, trace>>

\* sendSignalingMessage: written only while the socket is open
SendSignalingMessage(e, m) == IF e.ws = "open" THEN Append(e.put, m) ELSE e.put

\* startHost: connectWebSocket, then createSession sends create_session and waits
StartHost(c) ==
  /\ endpoint[c].isHost /\ endpoint[c].ws = "none"
  /\ endpoint' = [endpoint EXCEPT
                    ![c].ws = "open",
                    ![c].promise = "pending",
                    ![c].put = Append(@, Msg("create_session", endpoint[c].sessionId,
                                             Undefined, Undefined, NoError))]
  /\ RelayUnchanged

\* startClient: connectWebSocket, then joinSession sends join_session and waits
StartClient(c) ==
  /\ ~endpoint[c].isHost /\ endpoint[c].ws = "none"
  /\ endpoint' = [endpoint EXCEPT
                    ![c].ws = "open",
                    ![c].promise = "pending",
                    ![c].put = Append(@, Msg("join_session", endpoint[c].sessionId,
                                             endpoint[c].clientId, Undefined, NoError))]
  /\ RelayUnchanged

\* a socket that hands over the newest message first
RECURSIVE SendsToNewestFirst(_, _)
SendsToNewestFirst(h, c) ==
  IF h = <<>> THEN <<>>
  ELSE LET ToC(x) == x.to = c
           mine == SelectSeq(Head(h).sent, ToC)
       IN SendsToNewestFirst(Tail(h), c) \o [i \in 1..Len(mine) |-> mine[Len(mine) + 1 - i].msg]

\* every ws.send the relay made to connection c, in order
RECURSIVE SendsTo(_, _)
SendsTo(h, c) ==
  IF h = <<>> THEN <<>>
  ELSE LET ToC(x) == x.to = c
           mine == SelectSeq(Head(h).sent, ToC)
       IN [i \in 1..Len(mine) |-> mine[i].msg] \o SendsTo(Tail(h), c)

Inbound(c) == SendsTo(History, c)

\* the listener createSession / joinSession adds while it waits for the reply
Settle(e, m) ==
  IF e.promise # "pending" THEN e.promise
  ELSE IF /\ m.type = (IF e.isHost THEN "session_created" ELSE "session_joined")
          /\ m.sessionId = e.sessionId
       THEN "resolved"
       ELSE IF m.type = "session_error" THEN "rejected" ELSE "pending"

\* a host that waits for the client to make the offer
ReactWithoutOffer(e, m) ==
  IF m.type = "offer" /\ m.payload # Undefined
  THEN SendSignalingMessage(e, Msg("answer", e.sessionId, e.clientId, m.payload, NoError))
  ELSE e.put

\* handleSignalingMessage: a host answers client_joined with an offer for that
\* client (createAndSendOffer), an endpoint answers an offer with an answer
\* under its own client id (handleOffer); the session description it carries
\* is told apart by the client id the offer was made for
React(e, m) ==
  IF m.type = "client_joined" /\ e.isHost
  THEN SendSignalingMessage(e, Msg("offer", e.sessionId, m.clientId, m.clientId, NoError))
  ELSE IF m.type = "offer" /\ m.payload # Undefined
       THEN SendSignalingMessage(e, Msg("answer", e.sessionId, e.clientId, m.payload, NoError))
       ELSE e.put

\* ws.onmessage
OnMessage(c) ==
  /\ endpoint[c].ws = "open"
  /\ Len(endpoint[c].got) < Len(Inbound(c))
  /\ LET e == endpoint[c]
         m == Inbound(c)[Len(e.got) + 1]
     IN endpoint' = [endpoint EXCEPT
                       ![c].got = Append(@, m),
                       ![c].promise = Settle(e, m),
                       ![c].put = React(e, m)]
  /\ RelayUnchanged

\* the endpoints that have closed their socket; MaxDepartures of them may
Departed == {c \in Conns : endpoint[c].ws = "closed"}

\* disconnect(): leave_session, then ws.close()
Disconnect(c) ==
  /\ endpoint[c].ws = "open"
  /\ Cardinality(Departed) < MaxDepartures
  /\ endpoint' = [endpoint EXCEPT
                    ![c].ws = "closed",
                    ![c].put = Append(SendSignalingMessage(endpoint[c],
                                        Msg("leave_session", endpoint[c].sessionId,
                                            endpoint[c].clientId, Undefined, NoError)),
                                      CloseMark)]
  /\ RelayUnchanged

\* the page is closed or the network is lost: the socket closes without a leave
Drop(c) ==
  /\ endpoint[c].ws = "open"
  /\ Cardinality(Departed) < MaxDepartures
  /\ endpoint' = [endpoint EXCEPT ![c].ws = "closed", ![c].put = Append(@, CloseMark)]
  /\ RelayUnchanged

\* how many events of connection c the relay has handled
HandledOf(c) == Cardinality({k \in 1..Len(History) : History[k].op.ws = c})

\* the next thing the relay gets from connection c is of type t
Arrives(c, t) ==
  /\ HandledOf(c) < Len(endpoint[c].put)
  /\ endpoint[c].put[HandledOf(c) + 1].type = t

Arrived(c) == endpoint[c].put[HandledOf(c) + 1]

\* ws.on('message') / ws.on('close') for what connection c wrote next
RelayHandles(c) ==
  \/ Arrives(c, "create_session") /\ CreateSession(c, Arrived(c).sessionId)
  \/ Arrives(c, "join_session") /\ JoinSession(c, Arrived(c).sessionId, Arrived(c).clientId)
  \/ Arrives(c, "offer")
       /\ ForwardOffer(c, Arrived(c).sessionId, Arrived(c).clientId, Arrived(c).payload)
  \/ Arrives(c, "answer")
       /\ ForwardAnswer(c, Arrived(c).sessionId, Arrived(c).clientId, Arrived(c).payload)
  \/ Arrives(c, "leave_session")
       /\ LeaveSession(c, Arrived(c).sessionId, Arrived(c).clientId)
  \/ Arrives(c, "close") /\ OnClose(c)

NextExchange ==
  \/ \E c \in Conns : StartHost(c)
  \/ \E c \in Conns : StartClient(c)
  \/ \E c \in Conns : OnMessage(c)
  \/ \E c \in Conns : Disconnect(c)
  \/ \E c \in Conns : Drop(c)
  \/ \E c \in Conns : RelayHandles(c)

\* The relay handles every message that has arrived and an endpoint reads
\* every message it was sent: both are event loops that run whenever their
\* socket has something for them.
ExchangeFairness ==
  \A c \in Conns : WF_vars(OnMessage(c)) /\ WF_vars(RelayHandles(c))

SpecExchange == InitExchange /\ [][NextExchange]_vars /\ ExchangeFairness

\* ---------------------------------------------- observations on endpoints
ClientEndpoints == {c \in Conns : ~endpoint[c].isHost}

\* the records in which the relay accepted the join_session of connection c
JoinRecords(c) ==
  {k \in 1..Len(History) :
     /\ History[k].op.ws = c /\ History[k].op.type = "join_session"
     /\ \E i \in 1..Len(History[k].sent) : History[k].sent[i].msg.type = "session_joined"}

\* the relay has accepted the join_session of client endpoint c
JoinSucceeded(c) == JoinRecords(c) # {}

\* the connections that were told client_joined when c joined: the host
JoinHosts(c) ==
  UNION {{History[k].sent[i].to :
            i \in {j \in 1..Len(History[k].sent) :
                     History[k].sent[j].msg.type = "client_joined"}} :
         k \in JoinRecords(c)}

\* endpoint c has read an offer the host made for the client id of c
GotOffer(c) ==
  \E i \in 1..Len(endpoint[c].got) :
    /\ endpoint[c].got[i].type = "offer"
    /\ endpoint[c].got[i].payload = endpoint[c].clientId

\* host h has read an answer tagged with the client id of c
GotAnswer(h, c) ==
  \E i \in 1..Len(endpoint[h].got) :
    /\ endpoint[h].got[i].type = "answer"
    /\ endpoint[h].got[i].clientId = endpoint[c].clientId

Gone(c) == endpoint[c].ws = "closed"

\* C33: after the join_session of a client has succeeded, and unless the
\* host or that client disconnects, the client eventually reads an offer the
\* host made for its client id and the host eventually reads an answer
\* tagged with that client id.
C33_JoinLeadsToOfferAndAnswer ==
  \A c \in Conns :
    (~endpoint[c].isHost /\ JoinSucceeded(c)) ~>
      \/ Gone(c)
      \/ \A h \in JoinHosts(c) : Gone(h) \/ (GotOffer(c) /\ GotAnswer(h, c))

C33_Witness ==
  \E c \in ClientEndpoints :
    /\ JoinSucceeded(c) /\ ~Gone(c)
    /\ \A h \in JoinHosts(c) : ~Gone(h) /\ GotOffer(c) /\ GotAnswer(h, c)

\* the replies to a request of the given type
RepliesTo(type) ==
  IF type = "create_session" THEN {"session_created", "session_error"}
  ELSE IF type = "join_session" THEN {"session_joined", "session_error"}
  ELSE {}

ReplyTypes == {"session_created", "session_joined", "session_error"}

\* the records of the requests of connection c the relay has handled
Requests(c) ==
  {k \in 1..Len(History) :
     History[k].op.ws = c /\ History[k].op.type \in {"create_session", "join_session"}}

\* the replies among what record rec sent to connection c
RepliesIn(rec, c) ==
  {i \in 1..Len(rec.sent) : rec.sent[i].to = c /\ rec.sent[i].msg.type \in ReplyTypes}

\* every request handled so far was answered with one reply of its kind on
\* the connection it came from, and no reply was sent for anything else
RepliedOnce ==
  \A k \in 1..Len(History) :
    LET rec == History[k] IN
    \A c \in Conns :
      IF k \in Requests(c)
      THEN /\ Cardinality(RepliesIn(rec, c)) = 1
           /\ \A i \in RepliesIn(rec, c) : rec.sent[i].msg.type \in RepliesTo(rec.op.type)
      ELSE RepliesIn(rec, c) = {}

\* C34: every create_session or join_session gets exactly one reply on the
\* connection it came from, session_created or session_joined or
\* session_error, so the promise of the endpoint that sent it settles once
\* the relay has handled the request (unless that endpoint disconnects).
C34_OneReplySettlesPromise ==
  /\ []RepliedOnce
  /\ \A c \in Conns :
       (endpoint[c].promise = "pending" /\ Requests(c) # {}) ~>
         (endpoint[c].promise \in {"resolved", "rejected"} \/ Gone(c))

C34_Witness ==
  /\ \E c \in Conns : endpoint[c].isHost /\ endpoint[c].promise = "resolved"
  /\ \E c \in Conns : endpoint[c].isHost /\ endpoint[c].promise = "rejected"
  /\ \E c \in Conns : ~endpoint[c].isHost /\ endpoint[c].promise = "resolved"
  /\ \A c \in Conns : ~Gone(c)

\* the ws.send calls that told somebody of the departure of client id k
DepartureNotices(k) ==
  LET w == Wire(History) IN
  {i \in 1..Len(w) :
     w[i].msg.type \in {"client_left", "client_disconnected"} /\ w[i].msg.clientId = k}

\* how many of the messages endpoint c wrote are of type t, and whether the
\* relay has handled the first of them
Wrote(c, t) == {i \in 1..Len(endpoint[c].put) : endpoint[c].put[i].type = t}
HandledWritten(c, t) == \E i \in Wrote(c, t) : i <= HandledOf(c)

\* C37: a client that has joined and leaves through disconnect()
\* (leave_session, then the close of its socket) while the host is there
\* makes the relay send the host one departure notice, a client_left, when
\* the leave_session is handled; the close that follows adds no
\* client_disconnected.
C37_LeaveThenCloseNotifiesOnce ==
  \A c \in Conns :
    (/\ ~endpoint[c].isHost /\ JoinSucceeded(c) /\ Wrote(c, "leave_session") # {}
     /\ \A h \in JoinHosts(c) : ~Gone(h)) =>
      LET w == Wire(History)
          notices == DepartureNotices(endpoint[c].clientId)
      IN /\ Cardinality(notices) = IF HandledWritten(c, "leave_session") THEN 1 ELSE 0
         /\ \A i \in notices :
              /\ w[i].msg.type = "client_left"
              /\ w[i].to \in JoinHosts(c)
              /\ w[i].from = c

C37_Witness ==
  \E c \in Conns :
    /\ ~endpoint[c].isHost /\ JoinSucceeded(c)
    /\ HandledWritten(c, "leave_session") /\ HandledWritten(c, "close")
    /\ \A h \in JoinHosts(c) : ~Gone(h)
    /\ Cardinality(DepartureNotices(endpoint[c].clientId)) = 1

\* C38: on the connection of a joining client the session_joined of a
\* session comes before every offer of that session, in what the relay
\* sends and so in what the endpoint reads.
C38_SessionJoinedBeforeOffer ==
  \A c \in Conns :
    /\ \A i \in 1..Len(Inbound(c)) :
         Inbound(c)[i].type = "offer" =>
           \E j \in 1..(i - 1) :
             /\ Inbound(c)[j].type = "session_joined"
             /\ Inbound(c)[j].sessionId = Inbound(c)[i].sessionId
    /\ endpoint[c].got = SubSeq(Inbound(c), 1, Len(endpoint[c].got))

C38_Witness ==
  \E c \in Conns :
    /\ ~endpoint[c].isHost
    /\ endpoint[c].promise = "resolved"
    /\ \E i \in 1..Len(endpoint[c].got) : endpoint[c].got[i].type = "offer"
====
